---- MODULE Spec2Model ----
(***************************************************************************)
(* Interaction controllers of the eigenvalue lesson:                       *)
(*   - VectorTransformationViz: the one-shot transform animation           *)
(*   - CoupledOscillators / StabilityAnalysis: the continuous clocks       *)
(*   - TransformationExplorerFull / MatrixControls: the matrix editors     *)
(*   - EigenvectorFinder: the draggable vector and its eigenvector match   *)
(*   - DeterminantExplorer: the lambda slider and det(A - lambda I)        *)
(*   - the drawArrow helpers and the particles of StabilityAnalysis        *)
(*                                                                         *)
(* Real numbers are kept as integers in hundredths (0.02 is 2, 1 is 100,   *)
(* 0.71 is 71), so every step, slider value and preset entry is exact.     *)
(***************************************************************************)
EXTENDS Integers, Sequences, FiniteSets, TLC

VARIABLES
    \* VectorTransformationViz
    mounted,            \* the view is mounted
    animationProgress,  \* useState(0), hundredths
    isAnimating,        \* useState(false)
    showEigenvector,    \* useState(false)
    rafQueue,           \* pending animate callbacks: the `progress` each closure holds
    lateUpdates,        \* animate callbacks that ran after the view was torn down
    vizEvent,           \* the last handler or callback that ran on this view
    \* CoupledOscillators and StabilityAnalysis
    lifecycle,          \* view -> "new" | "mounted" | "unmounted"
    time,               \* view -> useState(0), hundredths
    selection,          \* view -> the selected mode / scenario
    animationRef,       \* view -> animationRef.current (0 is undefined)
    frames,             \* view -> handles of the frame callbacks still pending
    nextHandle,         \* the next handle requestAnimationFrame returns
    clockLateUpdates,   \* view -> animate callbacks that ran after teardown
    clockEvent,         \* the last handler or callback that ran on a clock view
    \* matrix editors
    variant,            \* which editor component is on the page
    matrix,             \* useState({a: 1, b: 0, c: 0, d: 1}), hundredths
    rendered,           \* the matrices the renders caused by the last event observed
    matrixEvent,        \* the last input event of the editor
    matrixSurface,      \* "ready" | "noContext" | "absent": the canvas of the editor's view
    matrixScene,        \* what the canvas of the editor's view shows
    matrixThrew,        \* the redraw raised an error
    \* EigenvectorFinder
    finderSurface,      \* "ready" | "noContext" | "absent": canvasRef.current and its 2D context
    vectorAngle,        \* useState(0), milliradians
    isDragging,         \* useState(false)
    finderScene,        \* what the canvas shows
    finderThrew,        \* a handler or the redraw raised an error
    finderEvent,        \* the last pointer event and whether its redraw drew
    \* DeterminantExplorer
    lambda,             \* useState(0), hundredths
    detScene,           \* what the render of the current lambda shows
    detEvent,           \* the last slider event: the value before it
    \* getEigenvectorMatch called on its own
    queryAngle,         \* the vectorAngle the call sees, milliradians
    matchResult,        \* what the call returned, once it has run
    \* drawArrow called on its own
    arrowRequest,       \* the scene and the vector (to - from), hundredths of a pixel
    arrowResult,        \* what the call drew, once it has run
    \* transformVector / transform of the matrix scenes called on their own
    applyRequest,       \* the scene, the matrix (hundredths) and the vector
    applyResult         \* what the helper returned, once it has run

vizVars == <<mounted, animationProgress, isAnimating, showEigenvector, rafQueue,
             lateUpdates, vizEvent>>
clockVars == <<lifecycle, time, selection, animationRef, frames, nextHandle,
               clockLateUpdates, clockEvent>>
matrixVars == <<variant, matrix, rendered, matrixEvent, matrixSurface, matrixScene,
                matrixThrew>>
finderVars == <<finderSurface, vectorAngle, isDragging, finderScene, finderThrew,
                finderEvent>>
detVars == <<lambda, detScene, detEvent>>
matchVars == <<queryAngle, matchResult>>
arrowVars == <<arrowRequest, arrowResult>>
applyVars == <<applyRequest, applyResult>>
vars == <<vizVars, clockVars, matrixVars, finderVars, detVars, matchVars, arrowVars,
          applyVars>>

\* what an event of one view leaves alone: the state of the other views
notViz == <<clockVars, matrixVars, finderVars, detVars, matchVars, arrowVars,
            applyVars>>
notClock == <<vizVars, matrixVars, finderVars, detVars, matchVars, arrowVars,
              applyVars>>
notMatrix == <<vizVars, clockVars, finderVars, detVars, matchVars, arrowVars,
               applyVars>>
notFinder == <<vizVars, clockVars, matrixVars, detVars, matchVars, arrowVars,
               applyVars>>
notDet == <<vizVars, clockVars, matrixVars, finderVars, matchVars, arrowVars,
            applyVars>>
notMatch == <<vizVars, clockVars, matrixVars, finderVars, detVars, arrowVars,
              applyVars>>
notArrow == <<vizVars, clockVars, matrixVars, finderVars, detVars, matchVars,
              applyVars>>
notApply == <<vizVars, clockVars, matrixVars, finderVars, detVars, matchVars,
              arrowVars>>

\* Math.abs
Abs(n) == IF n < 0 THEN -n ELSE n

(***************************************************************************)
(* VectorTransformationViz                                                 *)
(***************************************************************************)

\* progress += 0.02
ProgressStep == 2
\* the value 1 that `progress >= 1` tests and setAnimationProgress(1) commits
ProgressOne == 100

\* animate without the `return` of its halting branch
animateNoReturn(progress) ==
    LET p == progress + ProgressStep IN
    [progress |-> p, commit |-> p, done |-> p >= ProgressOne, reschedule |-> TRUE]

\* animate without its requestAnimationFrame(animate)
animateNoReschedule(progress) ==
    LET p == progress + ProgressStep IN
    IF p >= ProgressOne
    THEN [progress |-> p, commit |-> ProgressOne, done |-> TRUE, reschedule |-> FALSE]
    ELSE [progress |-> p, commit |-> p, done |-> FALSE, reschedule |-> FALSE]

\* One run of the animate closure whose `progress` is the argument:
\*   commit     the value passed to setAnimationProgress
\*   done       setIsAnimating(false) was called
\*   reschedule requestAnimationFrame(animate) was called
animate(progress) ==
    LET p == progress + ProgressStep IN
    IF p >= ProgressOne
    THEN [progress |-> p, commit |-> ProgressOne, done |-> TRUE, reschedule |-> FALSE]
    ELSE [progress |-> p, commit |-> p, done |-> FALSE, reschedule |-> TRUE]

\* handleTransform without `if (isAnimating) return`
startGuardMissing(animating) == FALSE

\* `if (isAnimating) return;`
startGuard(animating) == animating

\* Transform button whose disabled condition forgets the finished animation
TransformDisabledIgnoresProgress == isAnimating

\* <button onClick={handleTransform} disabled={...}>
TransformDisabled == isAnimating \/ animationProgress = ProgressOne

\* Reset button whose disabled condition forgets isAnimating
ResetDisabledIgnoresAnimating == animationProgress = 0

\* <button onClick={handleReset} disabled={...}>
ResetDisabled == isAnimating \/ animationProgress = 0

\* The handler body: the guard, the two setState calls and the first, synchronous
\* call of animate() with its closure variable `progress` starting at 0.
handleTransform ==
    /\ vizEvent' = "transform"
    /\ IF startGuard(isAnimating)
       THEN UNCHANGED <<animationProgress, isAnimating, showEigenvector, rafQueue>>
       ELSE LET r == animate(0) IN
            /\ animationProgress' = r.commit
            /\ isAnimating' = ~r.done
            /\ showEigenvector' = TRUE
            /\ rafQueue' = IF r.reschedule THEN Append(rafQueue, r.progress)
                           ELSE rafQueue
    /\ UNCHANGED <<mounted, lateUpdates>>

\* handleReset without setShowEigenvector(false)
handleResetKeepsEigenvector ==
    /\ vizEvent' = "reset"
    /\ animationProgress' = 0
    /\ UNCHANGED <<mounted, isAnimating, showEigenvector, rafQueue, lateUpdates>>

\* handleReset: setAnimationProgress(0); setShowEigenvector(false)
handleReset ==
    /\ vizEvent' = "reset"
    /\ animationProgress' = 0
    /\ showEigenvector' = FALSE
    /\ UNCHANGED <<mounted, isAnimating, rafQueue, lateUpdates>>

\* The callbacks of one display frame run in the order they were requested; a
\* callback requested while the frame runs waits for the next frame.
RECURSIVE RunFrame(_)
RunFrame(queue) ==
    IF queue = <<>> THEN <<>>
    ELSE <<animate(Head(queue))>> \o RunFrame(Tail(queue))

RECURSIVE Rescheduled(_)
Rescheduled(runs) ==
    IF runs = <<>> THEN <<>>
    ELSE (IF Head(runs).reschedule THEN <<Head(runs).progress>> ELSE <<>>)
         \o Rescheduled(Tail(runs))

\* A display tick. Nothing cancels the callback on teardown and animate does not
\* look at the view, so it runs whether or not the view is still mounted; React
\* drops the state updates of an unmounted component.
Tick ==
    /\ rafQueue # <<>>
    /\ LET runs == RunFrame(rafQueue) IN
       /\ rafQueue' = Rescheduled(runs)
       /\ IF mounted
          THEN /\ animationProgress' = runs[Len(runs)].commit
               /\ isAnimating' = (isAnimating /\ \A i \in 1..Len(runs) : ~runs[i].done)
               /\ UNCHANGED lateUpdates
          ELSE /\ lateUpdates' = lateUpdates + Len(runs)
               /\ UNCHANGED <<animationProgress, isAnimating>>
    /\ vizEvent' = "tick"
    /\ UNCHANGED <<mounted, showEigenvector>>

ClickTransform == mounted /\ ~TransformDisabled /\ handleTransform

ClickReset == mounted /\ ~ResetDisabled /\ handleReset

\* The component has no effect cleanup: unmounting changes nothing but the view.
Unmount ==
    /\ mounted
    /\ mounted' = FALSE
    /\ vizEvent' = "unmount"
    /\ UNCHANGED <<animationProgress, isAnimating, showEigenvector, rafQueue, lateUpdates>>

\* The handlers called directly, whatever the buttons show.
StartRequest == mounted /\ handleTransform

ResetRequest == mounted /\ handleReset

VizInit ==
    /\ mounted = TRUE
    /\ animationProgress = 0
    /\ isAnimating = FALSE
    /\ showEigenvector = FALSE
    /\ rafQueue = <<>>
    /\ lateUpdates = 0
    /\ vizEvent = "mount"

(***************************************************************************)
(* CoupledOscillators and StabilityAnalysis: the continuous clocks         *)
(***************************************************************************)

\* Frame handles the model lets requestAnimationFrame hand out
MaxHandles == 7

Views == {"CoupledOscillators", "StabilityAnalysis"}

\* setTime((t) => t + 0.03) and setTime((t) => t + 0.02)
TimeStep(v) == IF v = "CoupledOscillators" THEN 3 ELSE 2

\* 2 pi / omega1 with omega1 = 1: the period of the slower mode of the oscillators
OscillatorPeriod == 628

\* a clock whose time is reduced modulo the period of the oscillators
timeUpdaterWrapping(v, t) == (t + TimeStep(v)) % OscillatorPeriod

\* (t) => t + 0.03 and (t) => t + 0.02: the functional update animate passes to setTime
timeUpdater(v, t) == t + TimeStep(v)

\* the mode buttons and the scenario buttons
Options(v) ==
    IF v = "CoupledOscillators" THEN {"mode1", "mode2", "both"}
    ELSE {"stable", "unstable", "saddle"}

\* useState("both") and useState("stable")
DefaultOption(v) == IF v = "CoupledOscillators" THEN "both" ELSE "stable"

\* a clock effect that lists the selection among its dependencies
clockEffectDepsSelection(v) == TRUE

\* The dependency list of the clock effect is []: a change of the selection does
\* not run the effect again.
clockEffectDeps(v) == FALSE

\* animate that requests the next frame without storing its handle
animateKeepsRef(ref, handle) == ref

\* animationRef.current = requestAnimationFrame(animate): the value the ref holds
\* after animate requested the frame with this handle
animateRef(ref, handle) == handle

\* The cleanup of the clock effect: the handles still pending after
\* `if (animationRef.current) cancelAnimationFrame(animationRef.current)`
clockCleanup(pending, ref) == IF ref # 0 THEN pending \ {ref} ELSE pending

\* First render and the clock effect: the first frame is requested.
ClockMount(v) ==
    /\ lifecycle[v] = "new"
    /\ nextHandle <= MaxHandles
    /\ lifecycle' = [lifecycle EXCEPT ![v] = "mounted"]
    /\ frames' = [frames EXCEPT ![v] = @ \cup {nextHandle}]
    /\ animationRef' = [animationRef EXCEPT ![v] = nextHandle]
    /\ nextHandle' = nextHandle + 1
    /\ clockEvent' = <<v, "mount">>
    /\ UNCHANGED <<time, selection, clockLateUpdates>>

\* A display tick runs the pending animate callback of the view: the functional
\* update of time, then the request of the next frame. React drops the update of
\* an unmounted component.
ClockTick(v) ==
    /\ nextHandle <= MaxHandles
    /\ \E h \in frames[v] :
        /\ frames' = [frames EXCEPT ![v] = (@ \ {h}) \cup {nextHandle}]
        /\ animationRef' = [animationRef EXCEPT ![v] = animateRef(@, nextHandle)]
    /\ nextHandle' = nextHandle + 1
    /\ IF lifecycle[v] = "mounted"
       THEN /\ time' = [time EXCEPT ![v] = timeUpdater(v, @)]
            /\ UNCHANGED clockLateUpdates
       ELSE /\ clockLateUpdates' = [clockLateUpdates EXCEPT ![v] = @ + 1]
            /\ UNCHANGED time
    /\ clockEvent' = <<v, "tick">>
    /\ UNCHANGED <<lifecycle, selection>>

\* onClick={() => setMode(...)} / onClick={() => setScenario(...)}, and the
\* effects the following render runs again.
Select(v, option) ==
    /\ lifecycle[v] = "mounted"
    /\ selection' = [selection EXCEPT ![v] = option]
    /\ IF clockEffectDeps(v) /\ option # selection[v]
       THEN /\ nextHandle <= MaxHandles
            /\ frames' = [frames EXCEPT
                            ![v] = clockCleanup(@, animationRef[v]) \cup {nextHandle}]
            /\ animationRef' = [animationRef EXCEPT ![v] = nextHandle]
            /\ nextHandle' = nextHandle + 1
       ELSE UNCHANGED <<frames, animationRef, nextHandle>>
    /\ clockEvent' = <<v, "select">>
    /\ UNCHANGED <<lifecycle, time, clockLateUpdates>>

\* Teardown runs the cleanup of the clock effect.
ClockUnmount(v) ==
    /\ lifecycle[v] = "mounted"
    /\ lifecycle' = [lifecycle EXCEPT ![v] = "unmounted"]
    /\ frames' = [frames EXCEPT ![v] = clockCleanup(@, animationRef[v])]
    /\ clockEvent' = <<v, "unmount">>
    /\ UNCHANGED <<time, selection, animationRef, nextHandle, clockLateUpdates>>

\* Frame handles handed out in a long run of the clocks
MaxRunHandles == 900

\* the handles requested in a display frame by the callbacks of view v, given the
\* first free handle
frameHandles(v, first) == first .. (first + Cardinality(frames[v]) - 1)

\* One display frame: the browser runs every pending animate callback, of
\* CoupledOscillators and then of StabilityAnalysis; each adds its step to the
\* time of its view and requests the next frame.
ClockFrame ==
    LET firstOf(v) ==
            IF v = "CoupledOscillators" THEN nextHandle
            ELSE nextHandle + Cardinality(frames["CoupledOscillators"])
        ran == {v \in Views : frames[v] # {}}
        requested(v) == frameHandles(v, firstOf(v))
    IN  /\ ran # {}
        /\ nextHandle + 2 <= MaxRunHandles
        /\ frames' = [v \in Views |-> requested(v)]
        /\ animationRef' = [v \in Views |->
                IF v \in ran
                THEN animateRef(animationRef[v], CHOOSE h \in requested(v) :
                                                    \A g \in requested(v) : g <= h)
                ELSE animationRef[v]]
        /\ nextHandle' = nextHandle + Cardinality(frames["CoupledOscillators"])
                                    + Cardinality(frames["StabilityAnalysis"])
        /\ time' = [v \in Views |->
                IF v \in ran /\ lifecycle[v] = "mounted" /\ Cardinality(frames[v]) = 1
                THEN timeUpdater(v, time[v])
                ELSE time[v]]
        /\ clockLateUpdates' = [v \in Views |->
                IF lifecycle[v] = "mounted" THEN clockLateUpdates[v]
                ELSE clockLateUpdates[v] + Cardinality(frames[v])]
        /\ clockEvent' = <<"page", "frame">>
        /\ UNCHANGED <<lifecycle, selection>>

ClockInit ==
    /\ lifecycle = [v \in Views |-> "new"]
    /\ time = [v \in Views |-> 0]
    /\ selection = [v \in Views |-> DefaultOption(v)]
    /\ animationRef = [v \in Views |-> 0]
    /\ frames = [v \in Views |-> {}]
    /\ nextHandle = 1
    /\ clockLateUpdates = [v \in Views |-> 0]
    /\ clockEvent = <<"page", "load">>

(***************************************************************************)
(* The matrix editors: TransformationExplorerFull, and MatrixControls with *)
(* the handleMatrixChange of its parent                                    *)
(***************************************************************************)

\* Slider positions the model samples between min and max, both included
NumSliderSamples == 4

Keys == {"a", "b", "c", "d"}

\* <Slider min={-2} max={2} step={0.1}>
SliderMin == -200
SliderMax == 200
SliderStep == 10

\* The values onValueChange reports that the model draws slider input from:
\* evenly spaced positions of the slider, from min to max.
SliderValues ==
    LET positions == (SliderMax - SliderMin) \div SliderStep
        stride == positions \div NumSliderSamples
    IN  {SliderMin + SliderStep * stride * i : i \in 0..NumSliderSamples}

\* useState({ a: 1, b: 0, c: 0, d: 1 })
InitialMatrix == [a |-> 100, b |-> 0, c |-> 0, d |-> 100]

\* a preset table whose scale preset leaves the slider range
presetsScale3 ==
    << [name |-> "Identity",   values |-> [a |-> 100, b |-> 0, c |-> 0, d |-> 100]],
       [name |-> "Scale 3x",   values |-> [a |-> 300, b |-> 0, c |-> 0, d |-> 300]],
       [name |-> "Rotate 45",  values |-> [a |-> 71, b |-> -71, c |-> 71, d |-> 71]],
       [name |-> "Shear",      values |-> [a |-> 100, b |-> 100, c |-> 0, d |-> 100]],
       [name |-> "Reflection", values |-> [a |-> -100, b |-> 0, c |-> 0, d |-> 100]] >>

presetsShearTransposed ==
    << [name |-> "Identity",   values |-> [a |-> 100, b |-> 0, c |-> 0, d |-> 100]],
       [name |-> "Scale 2x",   values |-> [a |-> 200, b |-> 0, c |-> 0, d |-> 200]],
       [name |-> "Rotate 45",  values |-> [a |-> 71, b |-> -71, c |-> 71, d |-> 71]],
       [name |-> "Shear",      values |-> [a |-> 100, b |-> 0, c |-> 100, d |-> 100]],
       [name |-> "Reflection", values |-> [a |-> -100, b |-> 0, c |-> 0, d |-> 100]] >>

\* const presets = [...], the same table in both editors
presets ==
    << [name |-> "Identity",   values |-> [a |-> 100, b |-> 0, c |-> 0, d |-> 100]],
       [name |-> "Scale 2x",   values |-> [a |-> 200, b |-> 0, c |-> 0, d |-> 200]],
       [name |-> "Rotate 45",  values |-> [a |-> 71, b |-> -71, c |-> 71, d |-> 71]],
       [name |-> "Shear",      values |-> [a |-> 100, b |-> 100, c |-> 0, d |-> 100]],
       [name |-> "Reflection", values |-> [a |-> -100, b |-> 0, c |-> 0, d |-> 100]] >>

\* A state update handed to setMatrix: an updater function of the previous state
\* (functional) or a plain value.
Updater(key, value) ==
    [functional |-> TRUE, key |-> key, value |-> value, values |-> InitialMatrix]
Value(values) ==
    [functional |-> FALSE, key |-> "a", value |-> 0, values |-> values]

\* handleMatrixChange that spreads the matrix of its closure, not `prev`
handleMatrixChangeStale(current, key, value) ==
    Value([current EXCEPT ![key] = value])

\* handleMatrixChange that takes the matrix column-major: b and c change places
handleMatrixChangeTransposed(current, key, value) ==
    Updater(CASE key = "b" -> "c" [] key = "c" -> "b" [] OTHER -> key, value)

\* handleMatrixChange(key, value): setMatrix((prev) => ({ ...prev, [key]: value })).
\* `current` is the matrix of the render whose closure the handler is.
handleMatrixChange(current, key, value) == Updater(key, value)

\* What one update makes of the previous state
applyUpdate(prev, update) ==
    IF update.functional THEN [prev EXCEPT ![update.key] = update.value]
    ELSE update.values

\* The updates an event handler queued, applied in order by the next render
RECURSIVE processUpdateQueue(_, _)
processUpdateQueue(prev, queue) ==
    IF queue = <<>> THEN prev
    ELSE processUpdateQueue(applyUpdate(prev, Head(queue)), Tail(queue))

\* The preset onClick of each editor, as the batches of updates that are rendered
\* together: setMatrix(preset.values) in TransformationExplorerFull, four
\* onMatrixChange calls in MatrixControls. The calls of one click handler are one
\* batch.
presetUpdates(editor, current, preset) ==
    IF editor = "TransformationExplorerFull"
    THEN << <<Value(preset.values)>> >>
    ELSE << <<handleMatrixChange(current, "a", preset.values.a),
              handleMatrixChange(current, "b", preset.values.b),
              handleMatrixChange(current, "c", preset.values.c),
              handleMatrixChange(current, "d", preset.values.d)>> >>

\* The matrix each render sees: one render per batch
RECURSIVE renderBatches(_, _)
renderBatches(prev, batches) ==
    IF batches = <<>> THEN <<>>
    ELSE LET next == processUpdateQueue(prev, Head(batches)) IN
         <<next>> \o renderBatches(next, Tail(batches))

\* Math.abs(det) < 0.1, in units of 1/10000
SquishThreshold == 1000

\* the determinant info of MatrixViz and of MatrixTransformationExplorer: the
\* advisory lines drawn under `det(A) = ...`
determinantInfo(m) ==
    LET det == m.a * m.d - m.b * m.c
    IN  IF det < 0 THEN {"Orientation flipped!"}
        ELSE IF Abs(det) < SquishThreshold THEN {"Space is being squished!"}
        ELSE {}

\* the redraw effect of the editor's view, run after a render with matrix m
matrixRedraw(surface, scene, m) ==
    IF surface = "absent" THEN [scene |-> scene, drew |-> FALSE, threw |-> FALSE]
    ELSE IF surface = "noContext" THEN [scene |-> scene, drew |-> FALSE, threw |-> FALSE]
    ELSE [scene |-> [matrix |-> m,
                     det |-> m.a * m.d - m.b * m.c,
                     advisory |-> determinantInfo(m)],
          drew |-> TRUE,
          threw |-> FALSE]

\* the redraw that follows the last render of an event
matrixCommit(m) ==
    LET draw == matrixRedraw(matrixSurface, matrixScene, m)
    IN  /\ matrixScene' = draw.scene
        /\ matrixThrew' = (matrixThrew \/ draw.threw)
        /\ UNCHANGED matrixSurface

\* slider positions next to zero, where small determinants of either sign arise
NearZeroSteps == 1
FineSliderValues ==
    {SliderStep * k : k \in -NearZeroSteps..NearZeroSteps} \cup {-100, 100}

\* onValueChange={([v]) => handleMatrixChange(key, v)}
SliderChange(key, value) ==
    /\ rendered' = renderBatches(matrix, << <<handleMatrixChange(matrix, key, value)>> >>)
    /\ matrix' = rendered'[Len(rendered')]
    /\ matrixEvent' = [kind |-> "slider", key |-> key, value |-> value, preset |-> 0]
    /\ matrixCommit(matrix')
    /\ UNCHANGED variant

\* onClick of the i-th preset button
PresetClick(i) ==
    /\ rendered' = renderBatches(matrix, presetUpdates(variant, matrix, presets[i]))
    /\ matrix' = rendered'[Len(rendered')]
    /\ matrixEvent' = [kind |-> "preset", key |-> "a", value |-> 0, preset |-> i]
    /\ matrixCommit(matrix')
    /\ UNCHANGED variant

\* the canvas of the editor's view or its context comes or goes
MatrixSurfaceChange(surface) ==
    /\ surface # matrixSurface
    /\ matrixSurface' = surface
    /\ UNCHANGED <<variant, matrix, rendered, matrixEvent, matrixScene, matrixThrew>>

MatrixInit ==
    /\ variant \in {"TransformationExplorerFull", "MatrixControls"}
    /\ matrix = InitialMatrix
    /\ rendered = <<InitialMatrix>>
    /\ matrixEvent = [kind |-> "mount", key |-> "a", value |-> 0, preset |-> 0]
    /\ matrixSurface = "ready"
    /\ matrixScene = matrixRedraw("ready", <<>>, InitialMatrix).scene
    /\ matrixThrew = FALSE

(***************************************************************************)
(* EigenvectorFinder                                                       *)
(*                                                                         *)
(* Angles are integers in milliradians, cosines and sines in thousandths,  *)
(* pointer coordinates in pixels relative to the canvas centre with y      *)
(* pointing up, as the handlers compute them.                              *)
(***************************************************************************)

\* Math.PI, 2 * Math.PI, Math.PI / 2 and Math.PI / 4 in milliradians
Pi == 3142
TwoPi == 6283
HalfPi == 1571
QuarterPi == 785

eigenvectorAnglesClose == <<0, 200>>

\* const eigenvectorAngles = [0, (3 * Math.PI) / 4]
eigenvectorAngles == <<0, 2356>>
\* const eigenvalues = [2, 1]
eigenvalues == <<2, 1>>
\* const tolerance = 0.15
tolerance == 150

\* the `return null` of getEigenvectorMatch
null == [index |-> -1, eigenvalue |-> 0]

\* the loop body without `if (diff > Math.PI) diff = 2 * Math.PI - diff`
angleDiffNoWrap(angle, i) == Abs(angle - eigenvectorAngles[i])

\* the body of the loop of getEigenvectorMatch for entry i (1-based here)
angleDiff(angle, i) ==
    LET diff == Abs(angle - eigenvectorAngles[i])
    IN  IF diff > Pi THEN TwoPi - diff ELSE diff

\* getEigenvectorMatch: the first entry within the tolerance, else null
getEigenvectorMatch(angle) ==
    LET hits == {i \in 1..Len(eigenvectorAngles) : angleDiff(angle, i) < tolerance}
    IN  IF hits = {} THEN null
        ELSE LET i == CHOOSE h \in hits : \A g \in hits : h <= g
             IN  [index |-> i - 1, eigenvalue |-> eigenvalues[i]]

\* the vectorAngle values getEigenvectorMatch is called with on its own: every
\* QueryStep milliradians over more than a full turn either side of the table
\* entries, and the angles 0.1, 0.2 and 2 pi - 0.05
QueryStep == 50
QueryStepsBelow == 80
QuerySteps == 208
QueryAngles ==
    {QueryStep * (k - QueryStepsBelow) : k \in 0..QuerySteps} \cup {100, 200, TwoPi - 50}

\* a call of getEigenvectorMatch in a render with vectorAngle = angle
EvaluateMatch(angle) ==
    /\ queryAngle' = angle
    /\ matchResult' = [evaluated |-> TRUE, angle |-> angle,
                       match |-> getEigenvectorMatch(angle)]

MatchInit ==
    /\ queryAngle = 0
    /\ matchResult = [evaluated |-> FALSE, angle |-> 0, match |-> null]

finderMatrixDiagonal == [a |-> 2, b |-> 0, c |-> 0, d |-> 1]

\* const matrix = { a: 2, b: 1, c: 0, d: 1 }
finderMatrix == [a |-> 2, b |-> 1, c |-> 0, d |-> 1]

\* transformVector
transformVector(vx, vy) ==
    [x |-> finderMatrix.a * vx + finderMatrix.b * vy,
     y |-> finderMatrix.c * vx + finderMatrix.d * vy]

\* the angles Math.atan2 returns on the eight compass directions
CompassAngles == {0, QuarterPi, HalfPi, 2356, -Pi, -2356, -HalfPi, -QuarterPi}

\* Math.cos and Math.sin on the compass directions, thousandths
CosMilli(angle) ==
    CASE angle = 0 -> 1000
      [] Abs(angle) = QuarterPi -> 707
      [] Abs(angle) = HalfPi -> 0
      [] Abs(angle) = 2356 -> -707
      [] Abs(angle) = Pi -> -1000

SinMilli(angle) ==
    CASE angle = 0 \/ Abs(angle) = Pi -> 0
      [] angle = QuarterPi \/ angle = 2356 -> 707
      [] angle = HalfPi -> 1000
      [] angle = -QuarterPi \/ angle = -2356 -> -707
      [] angle = -HalfPi -> -1000

\* Math.atan2(y, x) for a pointer on a compass ray.  y is the negation of a
\* difference, so a zero y is -0: atan2(-0, x) is -0 for x >= 0 and -pi for x < 0.
Atan2(y, x) ==
    CASE y = 0 /\ x >= 0 -> 0
      [] y = 0 /\ x < 0 -> -Pi
      [] x = 0 /\ y > 0 -> HalfPi
      [] x = 0 /\ y < 0 -> -HalfPi
      [] x = y /\ x > 0 -> QuarterPi
      [] x = -y /\ y > 0 -> 2356
      [] x = y /\ x < 0 -> -2356
      [] x = -y /\ y < 0 -> -QuarterPi

\* const vectorLength = 1.5 and const scale = 80: the tip is 120 px from the centre
TipRadius == 120
\* if (dist < 30), squared and in tenths of a pixel
GrabRadiusSq == 90000

\* the squared distance, in tenths of a pixel, that handleMouseDown compares
tipDistSq(angle, x, y) ==
    LET vx == (CosMilli(angle) * TipRadius) \div 100
        vy == (SinMilli(angle) * TipRadius) \div 100
    IN  (10 * x - vx) * (10 * x - vx) + (10 * y - vy) * (10 * y - vy)

\* handleMouseDown arming at any distance
handleMouseDownAnywhere(canvas, angle, dragging, x, y) ==
    IF ~canvas THEN [isDragging |-> dragging, threw |-> FALSE]
    ELSE [isDragging |-> TRUE, threw |-> FALSE]

\* handleMouseDown: arms dragging when the pointer is within 30 px of the tip
handleMouseDown(canvas, angle, dragging, x, y) ==
    IF ~canvas THEN [isDragging |-> dragging, threw |-> FALSE]
    ELSE IF tipDistSq(angle, x, y) < GrabRadiusSq
         THEN [isDragging |-> TRUE, threw |-> FALSE]
         ELSE [isDragging |-> dragging, threw |-> FALSE]

\* handleMouseMove without `if (!canvas) return`: getBoundingClientRect of null
handleMouseMoveNoCanvasCheck(canvas, angle, dragging, x, y) ==
    IF ~dragging THEN [vectorAngle |-> angle, threw |-> FALSE]
    ELSE IF ~canvas THEN [vectorAngle |-> angle, threw |-> TRUE]
    ELSE [vectorAngle |-> Atan2(y, x), threw |-> FALSE]

\* handleMouseMove: while dragging, the angle follows the pointer
handleMouseMove(canvas, angle, dragging, x, y) ==
    IF ~dragging THEN [vectorAngle |-> angle, threw |-> FALSE]
    ELSE IF ~canvas THEN [vectorAngle |-> angle, threw |-> FALSE]
    ELSE [vectorAngle |-> Atan2(y, x), threw |-> FALSE]

\* handleMouseUp, also the onMouseLeave handler: setIsDragging(false)
handleMouseUp(dragging) == FALSE

\* the redraw effect of EigenvectorFinder: the blue vector, the drag handle and
\* the status message, or nothing at all without a canvas and a context
finderRedraw(surface, scene, angle, dragging) ==
    IF surface = "absent" THEN [scene |-> scene, drew |-> FALSE, threw |-> FALSE]
    ELSE IF surface = "noContext" THEN [scene |-> scene, drew |-> FALSE, threw |-> FALSE]
    ELSE [scene |-> [angle |-> angle,
                     handle |-> IF dragging THEN "solid" ELSE "faded",
                     status |-> getEigenvectorMatch(angle)],
          drew |-> TRUE,
          threw |-> FALSE]

\* the pointer positions tried: the compass rays at these distances from the centre
PointerRadii == {20, 85, 120, 149, 150}
PointerPositions ==
    {<<0, 0>>} \cup
    {<<sx * r, sy * r>> : sx \in {-1, 0, 1}, sy \in {-1, 0, 1}, r \in PointerRadii}

\* one pointer event: the handler, then the render and the redraw it causes
finderCommit(kind, x, y, angle, dragging, threw) ==
    LET draw == finderRedraw(finderSurface, finderScene, angle, dragging)
    IN  /\ vectorAngle' = angle
        /\ isDragging' = dragging
        /\ finderScene' = draw.scene
        /\ finderThrew' = (finderThrew \/ threw \/ draw.threw)
        /\ finderEvent' = [kind |-> kind, x |-> x, y |-> y, drew |-> draw.drew]
        /\ UNCHANGED finderSurface

\* onMouseDown
PointerDown(x, y) ==
    LET r == handleMouseDown(finderSurface # "absent", vectorAngle, isDragging, x, y)
    IN  finderCommit("down", x, y, vectorAngle, r.isDragging, r.threw)

\* onMouseMove
PointerMove(x, y) ==
    LET r == handleMouseMove(finderSurface # "absent", vectorAngle, isDragging, x, y)
    IN  finderCommit("move", x, y, r.vectorAngle, isDragging, r.threw)

\* onMouseUp
PointerUp(x, y) ==
    finderCommit("up", x, y, vectorAngle, handleMouseUp(isDragging), FALSE)

\* onMouseLeave
PointerLeave(x, y) ==
    finderCommit("leave", x, y, vectorAngle, handleMouseUp(isDragging), FALSE)

\* the canvas or its context comes or goes; no render, no redraw
Surfaces == {"ready", "noContext", "absent"}
FinderSurfaceChange(surface) ==
    /\ surface # finderSurface
    /\ finderSurface' = surface
    /\ UNCHANGED <<vectorAngle, isDragging, finderScene, finderThrew, finderEvent>>

\* a few pointer positions: on the initial tip, on the tip at angle pi / 2 and
\* near the centre
SurfacePointers == {<<TipRadius, 0>>, <<0, TipRadius>>, <<20, 20>>}

FinderInit ==
    /\ finderSurface = "ready"
    /\ vectorAngle = 0
    /\ isDragging = FALSE
    /\ finderScene = [angle |-> 0, handle |-> "faded", status |-> getEigenvectorMatch(0)]
    /\ finderThrew = FALSE
    /\ finderEvent = [kind |-> "mount", x |-> 0, y |-> 0, drew |-> TRUE]

(***************************************************************************)
(* DeterminantExplorer                                                     *)
(*                                                                         *)
(* lambda and the matrix entries are integers in hundredths; a determinant *)
(* is a product of two of them, so it is in units of 1/10000.              *)
(***************************************************************************)

\* const matrixA = { a: 3, b: 1, c: 0, d: 2 }
matrixA == [a |-> 300, b |-> 100, c |-> 0, d |-> 200]

\* A - lambda I with lambda taken from the first column instead of the diagonal
matrixAminusLambdaIColumn(m, l) ==
    [a |-> m.a - l, b |-> m.b, c |-> m.c - l, d |-> m.d]

\* const matrixAminusLambdaI = {a: matrixA.a - lambda, b, c, d: matrixA.d - lambda}
matrixAminusLambdaI(m, l) ==
    [a |-> m.a - l, b |-> m.b, c |-> m.c, d |-> m.d - l]

\* the sum of the diagonal in place of the determinant
determinantDiagonalSum(m) == m.a + m.d

\* const determinant = a * d - b * c
determinant(m) == m.a * m.d - m.b * m.c

\* Math.abs(determinant) < 0.15
DetThreshold == 1500
isAtEigenvalue(det) == Abs(det) < DetThreshold

\* const eigenvalues = [2, 3] of DeterminantExplorer
detEigenvalues == <<200, 300>>
\* the result of Array.find when no element qualifies
undefined == -1

nearestEigenvalueExact(l) ==
    LET hits == {i \in 1..Len(detEigenvalues) : Abs(l - detEigenvalues[i]) < 15}
    IN  IF hits = {} THEN undefined
        ELSE detEigenvalues[CHOOSE h \in hits : \A g \in hits : h <= g]
\* eigenvalues.find((ev) => Math.abs(lambda - ev) < 0.15).  The doubles nearest
\* to 1.85, 2.15, 2.85 and 3.15 are less than 0.15 (as a double) away from the
\* eigenvalue, so on the slider values the comparison holds up to 0.15 included.
nearestEigenvalue(l) ==
    LET hits == {i \in 1..Len(detEigenvalues) : Abs(l - detEigenvalues[i]) <= 15}
    IN  IF hits = {} THEN undefined
        ELSE detEigenvalues[CHOOSE h \in hits : \A g \in hits : h <= g]

\* <Slider min={-1} max={5} step={0.05} />
LambdaMin == -100
LambdaMax == 500
LambdaStep == 5
LambdaValues == {LambdaMin + k * LambdaStep : k \in 0..((LambdaMax - LambdaMin) \div LambdaStep)}

\* one render of DeterminantExplorer: the matrix, its determinant and the status
detRender(l) ==
    LET shifted == matrixAminusLambdaI(matrixA, l)
        det == determinant(shifted)
    IN  [shifted |-> shifted,
         determinant |-> det,
         isAtEigenvalue |-> isAtEigenvalue(det),
         found |-> IF isAtEigenvalue(det) THEN nearestEigenvalue(l) ELSE undefined,
         highlight |-> isAtEigenvalue(det),
         canvasStatus |-> IF isAtEigenvalue(det) /\ nearestEigenvalue(l) # undefined
                          THEN "eigenvalue" ELSE "determinant"]

\* onValueChange of the lambda slider: setLambda(v), then the render
SlideLambda(v) ==
    /\ lambda' = v
    /\ detScene' = detRender(v)
    /\ detEvent' = [kind |-> "slide", from |-> lambda]

DetInit ==
    /\ lambda = 0
    /\ detScene = detRender(0)
    /\ detEvent = [kind |-> "mount", from |-> 0]

(***************************************************************************)
(* StabilityAnalysis: the particles                                        *)
(***************************************************************************)

\* the 8 of `time % 8`, hundredths
StabilityPeriod == 800

\* the clock time used as it is
modTimeUnwrapped(t) == t

\* const modTime = time % 8
modTime(t) == t % StabilityPeriod

\* lambda1 and lambda2 of the scenario, hundredths
scenarioLambdas(scenario) ==
    CASE scenario = "stable" -> [lambda1 |-> -50, lambda2 |-> -80]
      [] scenario = "unstable" -> [lambda1 |-> 50, lambda2 |-> 30]
      [] scenario = "saddle" -> [lambda1 |-> 50, lambda2 |-> -50]

\* const numParticles = 8 and const initR = 3
numParticles == 8
initR == 3

\* (i / numParticles) * 2 * Math.PI for i = 0 .. 7, as the angle in (-pi, pi]
\* with the same cosine and sine
particleAngles == <<0, QuarterPi, HalfPi, 2356, Pi, -2356, -HalfPi, -QuarterPi>>

\* the t of the trail loop: for (let t = 0; t <= modTime; t += 0.1)
trailTimes(m) == [k \in 1..(m \div 10 + 1) |-> 10 * (k - 1)]

\* a point x0 * e^(lambda1 * t), y0 * e^(lambda2 * t): the initial point in
\* thousandths and the two exponents in units of 1/10000
evolved(i, lambdas, t) ==
    [x0 |-> initR * CosMilli(particleAngles[i]),
     y0 |-> initR * SinMilli(particleAngles[i]),
     ex |-> lambdas.lambda1 * t,
     ey |-> lambdas.lambda2 * t]

\* what the redraw of StabilityAnalysis draws for the particles at clock time t
stabilityParticles(t, scenario) ==
    LET m == modTime(t)
        lambdas == scenarioLambdas(scenario)
    IN  [i \in 1..numParticles |->
            [trail |-> [k \in 1..Len(trailTimes(m)) |-> evolved(i, lambdas, trailTimes(m)[k])],
             particle |-> evolved(i, lambdas, m)]]

(***************************************************************************)
(* CoupledOscillators: the drawing                                         *)
(*                                                                         *)
(* Clock time in hundredths, angles in milliradians, cosines in            *)
(* thousandths, positions in thousandths of a pixel.                       *)
(***************************************************************************)

\* const omega1 = 1 and const omega2 = Math.sqrt(3), thousandths
omega1 == 1000
omega2 == 1732

\* Math.cos on [0, pi / 2] by Bhaskara's formula (pi^2 - 4 x^2) / (pi^2 + x^2),
\* within 0.004 of the cosine
cosQuarter(x) ==
    (((Pi * Pi - 4 * x * x) \div 10) * 1000) \div ((Pi * Pi + x * x) \div 10)

\* Math.cos(angle) for angle >= 0: reduced to [0, pi] by the period and the
\* symmetry of the cosine, then to [0, pi / 2] by cos(pi - x) = -cos(x)
cosine(angle) ==
    LET r == angle % TwoPi
        a == IF r > Pi THEN TwoPi - r ELSE r
    IN  IF a > HalfPi THEN -cosQuarter(Pi - a) ELSE cosQuarter(a)

\* <canvas width={340} />, restPos1 = width * 0.35, restPos2 = width * 0.65,
\* amplitude = 40 and massSize = 40, in pixels
oscillatorWidth == 340
restPos1 == (oscillatorWidth * 35) \div 100
restPos2 == (oscillatorWidth * 65) \div 100
amplitude == 40
massSize == 40

\* the displacements x1 and x2 of the two masses in a mode at clock time t
displacements(mode, t) ==
    LET c1 == cosine((omega1 * t) \div 100)
        c2 == cosine((omega2 * t) \div 100)
    IN  CASE mode = "mode1" -> [x1 |-> amplitude * c1, x2 |-> amplitude * c1]
          [] mode = "mode2" -> [x1 |-> amplitude * c2, x2 |-> -amplitude * c2]
          [] mode = "both" ->
                [x1 |-> (amplitude \div 2) * c1 + (amplitude \div 2) * c2,
                 x2 |-> (amplitude \div 2) * c1 - (amplitude \div 2) * c2]

\* what the redraw of CoupledOscillators draws: the centres of the two masses
\* and the ends of the middle spring, drawSpring(pos1 + 20, pos2 - 20, ...)
oscillatorScene(mode, t) ==
    LET x == displacements(mode, t)
        pos1 == 1000 * restPos1 + x.x1
        pos2 == 1000 * restPos2 + x.x2
    IN  [pos1 |-> pos1,
         pos2 |-> pos2,
         springStart |-> pos1 + 1000 * 20,
         springEnd |-> pos2 - 1000 * 20]

(***************************************************************************)
(* drawArrow                                                               *)
(*                                                                         *)
(* Each scene has its own drawArrow.  An arrow request is the vector from  *)
(* the arrow's start to its end in hundredths of a pixel; the requests of  *)
(* a scene are the ones its redraw makes on the inputs the scene can have. *)
(***************************************************************************)

ArrowScenes ==
    {"MatrixViz", "MatrixTransformationExplorer", "DeterminantExplorer",
     "VectorTransformationViz", "EigenvectorFinder"}

\* `if (length < 5) return` of MatrixViz and MatrixTransformationExplorer and
\* `if (length < 3) return` of DeterminantExplorer, in pixels; the drawArrow of
\* VectorTransformationViz and of EigenvectorFinder have no such line
MinLengthMatrix == 5
MinLengthDeterminant == 3

\* the arrow was not drawn and the styles of the context were not touched
Suppressed == [line |-> FALSE, head |-> FALSE, style |-> "kept"]
\* strokeStyle, fillStyle and lineWidth set, the segment stroked, the head filled
Drawn == [line |-> TRUE, head |-> TRUE, style |-> "set"]

\* length < min for a vector in hundredths of a pixel
shorterThan(dx, dy, min) == dx * dx + dy * dy < (100 * min) * (100 * min)

\* drawArrow without a minimum length in any scene
drawArrowNoMinimum(scene, dx, dy) == Drawn

\* drawArrow of the given scene
drawArrow(scene, dx, dy) ==
    CASE scene \in {"MatrixViz", "MatrixTransformationExplorer"} ->
            IF shorterThan(dx, dy, MinLengthMatrix) THEN Suppressed ELSE Drawn
      [] scene = "DeterminantExplorer" ->
            IF shorterThan(dx, dy, MinLengthDeterminant) THEN Suppressed ELSE Drawn
      [] scene \in {"VectorTransformationViz", "EigenvectorFinder"} -> Drawn

\* the values of an entry of the edited matrix that are tried: the slider
\* positions around zero and across the range, and the entries of the presets
EntryValues ==
    FineSliderValues \cup SliderValues
    \cup {presets[i].values[key] : i \in 1..Len(presets), key \in Keys}

\* const scale of the matrix scenes, of DeterminantExplorer and
\* VectorTransformationViz, and of EigenvectorFinder
ScaleMatrix == 50
ScaleSixty == 60
ScaleFinder == 80

\* the vectors of VectorTransformationViz and its matrix { a: 2, b: 1, c: 0, d: 1 }
vizVectors == {[x |-> 100, y |-> 50], [x |-> 50, y |-> 100], [x |-> 100, y |-> 0]}
vizMatrix == [a |-> 2, b |-> 1, c |-> 0, d |-> 1]

vizTransformVectorNoInterpolation(vx, vy, t) ==
    [x |-> vizMatrix.a * vx + vizMatrix.b * vy,
     y |-> vizMatrix.c * vx + vizMatrix.d * vy]

\* transformVector(vx, vy, t) of VectorTransformationViz, t in hundredths
vizTransformVector(vx, vy, t) ==
    [x |-> vx + (t * (vizMatrix.a * vx + vizMatrix.b * vy - vx)) \div 100,
     y |-> vy + (t * (vizMatrix.c * vx + vizMatrix.d * vy - vy)) \div 100]

\* the values animationProgress takes
ProgressValues == {ProgressStep * k : k \in 0..(ProgressOne \div ProgressStep)}

\* the arrows the redraw of a scene asks its drawArrow for
arrowRequests(scene) ==
    CASE scene \in {"MatrixViz", "MatrixTransformationExplorer"} ->
            \* the faded basis vectors and the columns of the matrix
            {<<100 * ScaleMatrix, 0>>, <<0, -100 * ScaleMatrix>>} \cup
            {<<x * ScaleMatrix, -y * ScaleMatrix>> : x \in EntryValues, y \in EntryValues}
      [] scene = "DeterminantExplorer" ->
            \* transform(1, 0) and transform(0, 1) under A - lambda I
            UNION {LET m == matrixAminusLambdaI(matrixA, l)
                   IN  {<<m.a * ScaleSixty, -m.c * ScaleSixty>>,
                        <<m.b * ScaleSixty, -m.d * ScaleSixty>>} : l \in LambdaValues}
      [] scene = "VectorTransformationViz" ->
            \* each vector as it was and as it is at the current progress
            UNION {LET tv == vizTransformVector(v.x, v.y, t)
                   IN  {<<tv.x * ScaleSixty, -tv.y * ScaleSixty>>} \cup
                       (IF t > 0 THEN {<<v.x * ScaleSixty, -v.y * ScaleSixty>>} ELSE {})
                   : v \in vizVectors, t \in ProgressValues}
      [] scene = "EigenvectorFinder" ->
            \* v of length 1.5 and Av, at the angle of the drag
            UNION {LET vx == CosMilli(angle)
                       vy == SinMilli(angle)
                       Av == transformVector(vx, vy)
                   IN  {<<(vx * 15 * ScaleFinder) \div 100, -((vy * 15 * ScaleFinder) \div 100)>>,
                        <<(Av.x * ScaleFinder) \div 10, -((Av.y * ScaleFinder) \div 10)>>}
                   : angle \in CompassAngles}

\* one call of drawArrow made by the redraw of a scene
RequestArrow(scene, dx, dy) ==
    /\ arrowRequest' = [scene |-> scene, dx |-> dx, dy |-> dy]
    /\ arrowResult' = [evaluated |-> TRUE, drawn |-> drawArrow(scene, dx, dy)]

ArrowInit ==
    /\ arrowRequest = [scene |-> "MatrixViz", dx |-> 100 * ScaleMatrix, dy |-> 0]
    /\ arrowResult = [evaluated |-> FALSE, drawn |-> Suppressed]

(***************************************************************************)
(* transformVector / transform of the matrix scenes                         *)
(***************************************************************************)

\* transformVector of MatrixViz with the rows of the matrix exchanged for its columns
matrixVizTransformVectorTransposed(m, vx, vy) ==
    [x |-> m.a * vx + m.c * vy,
     y |-> m.b * vx + m.d * vy]

\* transformVector of MatrixViz: matrix in hundredths, vector in units
matrixVizTransformVector(m, vx, vy) ==
    [x |-> m.a * vx + m.b * vy,
     y |-> m.c * vx + m.d * vy]

\* transformVector of MatrixTransformationExplorer
explorerTransformVector(m, vx, vy) ==
    [x |-> m.a * vx + m.b * vy,
     y |-> m.c * vx + m.d * vy]

\* transform of DeterminantExplorer's redraw, m being A - lambda I
detTransform(m, vx, vy) ==
    [x |-> m.a * vx + m.b * vy,
     y |-> m.c * vx + m.d * vy]

\* const det = matrix.a * matrix.d - matrix.b * matrix.c of the matrix scenes
matrixDet(m) == m.a * m.d - m.b * m.c

\* the scenes that own such a helper
ApplyScenes == {"MatrixViz", "MatrixTransformationExplorer", "DeterminantExplorer"}

\* the helper of a scene and the determinant its render computes
sceneApply(scene, m, vx, vy) ==
    CASE scene = "MatrixViz" -> matrixVizTransformVector(m, vx, vy)
      [] scene = "MatrixTransformationExplorer" -> explorerTransformVector(m, vx, vy)
      [] scene = "DeterminantExplorer" -> detTransform(m, vx, vy)
sceneDet(scene, m) ==
    IF scene = "DeterminantExplorer" THEN determinant(m) ELSE matrixDet(m)

\* the coordinates the redraws hand to the helpers: the grid line ends, the
\* basis vectors and the corners of the unit square
ApplyCoordinates == {-4, -1, 0, 1, 4}

\* the matrices tried: the presets, the initial matrix and the ends of the
\* sliders in the editors; A - lambda I at a few slider values in DeterminantExplorer
applyMatrices(scene) ==
    IF scene = "DeterminantExplorer"
    THEN {matrixAminusLambdaI(matrixA, l) : l \in {LambdaMin, 0, 200, 250, 300, LambdaMax}}
    ELSE {presets[i].values : i \in 1..Len(presets)}
         \cup {InitialMatrix,
               [a |-> SliderMin, b |-> SliderMax, c |-> SliderStep, d |-> -SliderStep]}

\* one call of a scene's helper made by its redraw
RequestApply(scene, m, vx, vy) ==
    /\ applyRequest' = [scene |-> scene, m |-> m, x |-> vx, y |-> vy]
    /\ applyResult' = [evaluated |-> TRUE,
                       image |-> sceneApply(scene, m, vx, vy),
                       det |-> sceneDet(scene, m)]

ApplyInit ==
    /\ applyRequest = [scene |-> "MatrixViz", m |-> InitialMatrix, x |-> 1, y |-> 0]
    /\ applyResult = [evaluated |-> FALSE, image |-> [x |-> 0, y |-> 0], det |-> 0]

(***************************************************************************)
(* The draw calls of a redraw                                              *)
(*                                                                         *)
(* A redraw is the sequence of the calls it makes on the 2D context, each  *)
(* call a pair <<kind, what>>; an arrow that drawArrow suppresses makes no *)
(* call.                                                                   *)
(***************************************************************************)

\* n calls of one kind
repeatCall(call, n) == [i \in 1..n |-> call]

\* the basis vectors of MatrixViz and the specialVectors of
\* MatrixTransformationExplorer
basisVectors == << [x |-> 1, y |-> 0, label |-> "i"], [x |-> 0, y |-> 1, label |-> "j"] >>

\* one drawArrow call of a scene: a call on the context unless suppressed
arrowCall(scene, what, dx, dy) ==
    IF drawArrow(scene, dx, dy).line THEN << <<"arrow", what>> >> ELSE << >>

\* an iteration of vectors.forEach that writes the label before the arrows
vectorCallsLabelFirst(m, v) ==
    LET transformed == matrixVizTransformVector(m, v.x, v.y)
    IN  << <<"text", v.label>> >>
        \o arrowCall("MatrixViz", "original", 100 * v.x * ScaleMatrix, -(100 * v.y * ScaleMatrix))
        \o arrowCall("MatrixViz", "transformed",
                     transformed.x * ScaleMatrix, -(transformed.y * ScaleMatrix))

\* one iteration of vectors.forEach in the matrix scenes: the faded original
\* arrow, the transformed arrow, then the label of the vector
vectorCalls(m, v) ==
    LET transformed == matrixVizTransformVector(m, v.x, v.y)
    IN  arrowCall("MatrixViz", "original", 100 * v.x * ScaleMatrix, -(100 * v.y * ScaleMatrix))
        \o arrowCall("MatrixViz", "transformed",
                     transformed.x * ScaleMatrix, -(transformed.y * ScaleMatrix))
        \o << <<"text", v.label>> >>

\* the redraw of MatrixViz and of MatrixTransformationExplorer for matrix m
matrixDrawCalls(m) ==
    << <<"clear", "background">> >>
    \o repeatCall(<<"grid", "line">>, 18)
    \o repeatCall(<<"axis", "line">>, 2)
    \o vectorCalls(m, basisVectors[1])
    \o vectorCalls(m, basisVectors[2])
    \o << <<"text", "det">> >>
    \o (IF determinantInfo(m) = {} THEN << >> ELSE << <<"text", "advisory">> >>)

\* the redraw of DeterminantExplorer at lambda = l
detDrawCalls(l) ==
    LET shifted == matrixAminusLambdaI(matrixA, l)
        e1 == detTransform(shifted, 1, 0)
        e2 == detTransform(shifted, 0, 1)
    IN  << <<"clear", "background">> >>
        \o repeatCall(<<"grid", "line">>, 22)
        \o repeatCall(<<"axis", "line">>, 2)
        \o << <<"polygon", "unit square">>, <<"polygon", "parallelogram">> >>
        \o arrowCall("DeterminantExplorer", "e1", e1.x * ScaleSixty, -(e1.y * ScaleSixty))
        \o arrowCall("DeterminantExplorer", "e2", e2.x * ScaleSixty, -(e2.y * ScaleSixty))
        \o << <<"text", "caption">>, <<"text", "status">> >>

\* the place of a kind of call in the order clear, grid, axes, polygon, arrows, text
layer(kind) ==
    CASE kind = "clear" -> 1
      [] kind = "grid" -> 2
      [] kind = "axis" -> 3
      [] kind = "polygon" -> 4
      [] kind = "arrow" -> 5
      [] kind = "text" -> 6

\* the calls come layer by layer, the clear first
inLayerOrder(calls) ==
    /\ Len(calls) > 0
    /\ calls[1][1] = "clear"
    /\ \A i \in 1..Len(calls) : \A j \in 1..Len(calls) :
          i < j => layer(calls[i][1]) <= layer(calls[j][1])

\* a call that writes the label of a vector, as opposed to a readout or an advisory
isVectorLabel(call) ==
    call[1] = "text" /\ \E k \in 1..Len(basisVectors) : call[2] = basisVectors[k].label

\* every call but the labels of the vectors
isNotVectorLabel(call) == ~isVectorLabel(call)

\* the calls come layer by layer once the labels of the vectors are left out,
\* each such label comes right after an arrow, and once a readout or an advisory
\* is written only text follows
inLayerOrderButLabels(calls) ==
    /\ inLayerOrder(SelectSeq(calls, isNotVectorLabel))
    /\ calls[1][1] = "clear"
    /\ \A k \in 1..Len(calls) :
          /\ isVectorLabel(calls[k]) => (k > 1 /\ calls[k - 1][1] = "arrow")
          /\ (calls[k][1] = "text" /\ ~isVectorLabel(calls[k])) =>
                \A j \in k..Len(calls) : calls[j][1] = "text"

(***************************************************************************)
(* Specifications                                                          *)
(***************************************************************************)

Init == VizInit /\ ClockInit /\ MatrixInit /\ FinderInit /\ DetInit /\ MatchInit /\
        ArrowInit /\ ApplyInit

\* VectorTransformationViz as the user drives it: the two buttons, the display
\* ticks and the teardown of the view.
Next ==
    \/ ClickTransform /\ UNCHANGED notViz
    \/ ClickReset /\ UNCHANGED notViz
    \/ Tick /\ UNCHANGED notViz
    \/ Unmount /\ UNCHANGED notViz

Spec == Init /\ [][Next]_vars

\* The browser runs a requested frame callback at the next display refresh.
FairSpec == Spec /\ WF_vars(Tick /\ UNCHANGED notViz)

\* VectorTransformationViz with its handlers called in any state.
NextHandlers ==
    \/ StartRequest /\ UNCHANGED notViz
    \/ ResetRequest /\ UNCHANGED notViz
    \/ Tick /\ UNCHANGED notViz

SpecHandlers == Init /\ [][NextHandlers]_vars

\* The two continuously running clocks.
NextClock ==
    \/ \E v \in Views : ClockMount(v) /\ UNCHANGED notClock
    \/ \E v \in Views : ClockTick(v) /\ UNCHANGED notClock
    \/ \E v \in Views : \E o \in Options(v) :
          Select(v, o) /\ UNCHANGED notClock
    \/ \E v \in Views : ClockUnmount(v) /\ UNCHANGED notClock

SpecClock == Init /\ [][NextClock]_vars

\* The two clocks left running, frame after frame.
NextRun ==
    \/ \E v \in Views : ClockMount(v) /\ UNCHANGED notClock
    \/ ClockFrame /\ UNCHANGED notClock
    \/ \E v \in Views : \E o \in Options(v) : Select(v, o) /\ UNCHANGED notClock

SpecRun == Init /\ [][NextRun]_vars

\* The matrix editors.
NextMatrix ==
    \/ \E key \in Keys : \E value \in SliderValues :
          SliderChange(key, value) /\ UNCHANGED notMatrix
    \/ \E i \in 1..Len(presets) : PresetClick(i) /\ UNCHANGED notMatrix

SpecMatrix == Init /\ [][NextMatrix]_vars

\* The sliders of the matrix editors moved around zero.
NextAdvisory ==
    \E key \in Keys : \E value \in FineSliderValues :
        SliderChange(key, value) /\ UNCHANGED notMatrix

SpecAdvisory == Init /\ [][NextAdvisory]_vars

\* EigenvectorFinder under the pointer.
NextFinder ==
    \/ \E p \in PointerPositions : PointerDown(p[1], p[2]) /\ UNCHANGED notFinder
    \/ \E p \in PointerPositions : PointerMove(p[1], p[2]) /\ UNCHANGED notFinder
    \/ \E p \in PointerPositions : PointerUp(p[1], p[2]) /\ UNCHANGED notFinder
    \/ \E p \in PointerPositions : PointerLeave(p[1], p[2]) /\ UNCHANGED notFinder

SpecFinder == Init /\ [][NextFinder]_vars

\* EigenvectorFinder and a matrix editor with their handlers called whether or
\* not the canvas and its context are there.
NextSurface ==
    \/ \E surface \in Surfaces : FinderSurfaceChange(surface) /\ UNCHANGED notFinder
    \/ \E p \in SurfacePointers : PointerDown(p[1], p[2]) /\ UNCHANGED notFinder
    \/ \E p \in SurfacePointers : PointerMove(p[1], p[2]) /\ UNCHANGED notFinder
    \/ \E p \in SurfacePointers : PointerUp(p[1], p[2]) /\ UNCHANGED notFinder
    \/ \E p \in SurfacePointers : PointerLeave(p[1], p[2]) /\ UNCHANGED notFinder
    \/ \E surface \in Surfaces : MatrixSurfaceChange(surface) /\ UNCHANGED notMatrix
    \/ \E value \in {0, 100} : SliderChange("a", value) /\ UNCHANGED notMatrix

SpecSurface == Init /\ [][NextSurface]_vars

\* DeterminantExplorer under its slider.
NextDet == \E v \in LambdaValues : SlideLambda(v) /\ UNCHANGED notDet

SpecDet == Init /\ [][NextDet]_vars

\* getEigenvectorMatch on its own, one angle after another.
NextMatch == \E angle \in QueryAngles : EvaluateMatch(angle) /\ UNCHANGED notMatch

SpecMatch == Init /\ [][NextMatch]_vars

\* drawArrow on its own, on every arrow the scenes request.
NextArrow ==
    \E scene \in ArrowScenes : \E r \in arrowRequests(scene) :
        RequestArrow(scene, r[1], r[2]) /\ UNCHANGED notArrow

SpecArrow == Init /\ [][NextArrow]_vars

\* The helpers on their own, on the matrices and vectors the redraws use.
NextApply ==
    \E scene \in ApplyScenes : \E m \in applyMatrices(scene) :
        \E vx \in ApplyCoordinates : \E vy \in ApplyCoordinates :
            RequestApply(scene, m, vx, vy) /\ UNCHANGED notApply

SpecApply == Init /\ [][NextApply]_vars

\* the values of lambda tried together with the matrix editors: the ends of the
\* slider, values away from the eigenvalues, and the two eigenvalues, where one
\* transformed basis vector vanishes (lambda = 3) or the two are parallel
\* (lambda = 2)
DrawLambdas == {LambdaMin, 0, 100, detEigenvalues[1], 250, detEigenvalues[2], LambdaMax}

\* The redraws of the matrix editors and of DeterminantExplorer: the presets, a
\* slider put to zero, and the lambda slider.
NextDraw ==
    \/ \E i \in 1..Len(presets) : PresetClick(i) /\ UNCHANGED notMatrix
    \/ \E key \in Keys : SliderChange(key, 0) /\ UNCHANGED notMatrix
    \/ \E v \in DrawLambdas : SlideLambda(v) /\ UNCHANGED notDet

SpecDraw == Init /\ [][NextDraw]_vars

(***************************************************************************)
(* Properties                                                              *)
(***************************************************************************)

\* The three states of the transform animation, read off the committed state
Idle == ~isAnimating /\ animationProgress = 0
Animating == isAnimating
Done == ~isAnimating /\ animationProgress = ProgressOne

\* C1: a start request issued while the animation runs changes nothing; whatever
\* the order of start requests, resets and display ticks, at most one animate
\* callback is pending, and a display tick advances its progress by one step of
\* 0.02 and commits no more than that.
StartIsIdempotent ==
    [][ /\ Len(rafQueue') <= 1
        /\ (vizEvent' = "transform" /\ isAnimating) =>
              UNCHANGED <<animationProgress, isAnimating, showEigenvector, rafQueue>>
        /\ vizEvent' = "tick" =>
              /\ Len(rafQueue) = 1
              /\ rafQueue' \in {<<>>, <<rafQueue[1] + 2>>}
              /\ animationProgress' <= rafQueue[1] + 2 ]_vars

\* A start request arrived while the clock was already past its first step.
StartWhileRunning ==
    /\ vizEvent = "transform"
    /\ isAnimating
    /\ Len(rafQueue) = 1
    /\ rafQueue[1] > ProgressStep

\* C2: the committed progress is always within [0, 1]; the tick that carries the
\* running progress to 1 or past it commits exactly 1.
ProgressWithinUnitInterval ==
    /\ animationProgress \in 0..100
    /\ [][ /\ animationProgress' \in 0..100
           /\ (mounted /\ vizEvent' = "tick" /\ rafQueue[1] + 2 >= 100) =>
                 animationProgress' = 100 ]_vars

\* The last tick of an animation has committed 1.
ClampedAtOne == mounted /\ vizEvent = "tick" /\ animationProgress = 100

\* C3: through the buttons the animation goes Idle -> Animating -> Done and Reset
\* takes Done to Idle with the eigenvector hidden: Done never goes to Animating,
\* Animating never to Idle, progress strictly increases while animating and only
\* Reset lowers it.
TransformStateMachine ==
    [][ /\ Idle' \/ Animating' \/ Done'
        /\ Idle => (Idle' \/ (Animating' /\ animationProgress' > 0))
        /\ Animating =>
              \/ UNCHANGED <<animationProgress, isAnimating, showEigenvector>>
              \/ Animating' /\ animationProgress' > animationProgress
              \/ Done'
        /\ Done => (Done' \/ (Idle' /\ ~showEigenvector' /\ vizEvent' = "reset"))
        /\ animationProgress' < animationProgress => (Done /\ vizEvent' = "reset") ]_vars

\* A full cycle: Reset is enabled only at Done.
BackToIdle == Idle /\ vizEvent = "reset" /\ ~showEigenvector

\* C4: a started animation of a view that stays mounted reaches Done, and at Done
\* no frame callback is left scheduled.
AnimationTerminates ==
    /\ (mounted /\ isAnimating) ~> (~mounted \/ (Done /\ rafQueue = <<>>))
    /\ [](Done => rafQueue = <<>>)

\* The animation ran to its end on a mounted view and the clock stopped.
ClockHalted == mounted /\ Done /\ showEigenvector /\ rafQueue = <<>>

\* C5: once the view is torn down no animate callback issues a state update and
\* none requests another frame.
TeardownDiscardsCallback ==
    [][ ~mounted => (lateUpdates' = lateUpdates /\ rafQueue' = <<>>) ]_vars

\* C6: teardown of a continuous clock cancels the callback pending at that moment,
\* however many ticks have run: an unmounted view has no pending frame callback,
\* none of its callbacks runs, and its time no longer changes.
ClockCancelledOnTeardown ==
    [][ \A v \in Views :
          lifecycle'[v] = "unmounted" =>
             /\ frames'[v] = {}
             /\ clockLateUpdates'[v] = 0
             /\ lifecycle[v] = "unmounted" => time'[v] = time[v] ]_vars

\* A clock was torn down after several ticks.
TornDownAfterTicks ==
    \E v \in Views :
        lifecycle[v] = "unmounted" /\ time[v] >= 3 * TimeStep(v) /\ frames[v] = {}

\* C7: a mounted continuous clock has exactly one frame callback pending; a tick
\* adds exactly 0.03 (CoupledOscillators) or 0.02 (StabilityAnalysis) to its time
\* and nothing else changes its time; selecting a mode or scenario leaves the
\* time, the pending callback and its handle as they were.
OneClockPerView ==
    [][ \A v \in Views :
          /\ lifecycle'[v] = "mounted" => Cardinality(frames'[v]) = 1
          /\ (clockEvent' = <<v, "tick">> /\ lifecycle[v] = "mounted") =>
                time'[v] = time[v] + (IF v = "CoupledOscillators" THEN 3 ELSE 2)
          /\ clockEvent' # <<v, "tick">> => time'[v] = time[v]
          /\ clockEvent' = <<v, "select">> =>
                UNCHANGED <<time, frames, animationRef, nextHandle>> ]_vars

\* A mode or scenario was selected while the clock was running.
SelectedWhileRunning ==
    \E v \in Views :
        /\ clockEvent = <<v, "select">>
        /\ lifecycle[v] = "mounted"
        /\ selection[v] # DefaultOption(v)
        /\ time[v] > 0

\* C8: a preset click sets all four entries to the preset's table entry,
\* whatever the matrix was, and every render it causes sees that whole entry.
PresetReplacesAllFour ==
    [][ matrixEvent'.kind = "preset" =>
          /\ \A k \in Keys : matrix'[k] = presets[matrixEvent'.preset].values[k]
          /\ \A i \in 1..Len(rendered') :
                rendered'[i] = presets[matrixEvent'.preset].values ]_vars

\* The four single-field updates of MatrixControls replaced a matrix that differed
\* from the preset in the fields set before the last one.
PresetAfterEdits ==
    /\ variant = "MatrixControls"
    /\ matrixEvent.kind = "preset"
    /\ matrixEvent.preset = 3
    /\ matrix = [a |-> 71, b |-> -71, c |-> 71, d |-> 71]

\* C9: a slider change of one entry sets that entry to the new value and leaves
\* the other three as they were.
SliderReplacesOneField ==
    [][ matrixEvent'.kind = "slider" =>
          \A k \in Keys :
             matrix'[k] = IF k = matrixEvent'.key THEN matrixEvent'.value
                          ELSE matrix[k] ]_vars

\* Slider b was moved on a matrix whose other entries came from a preset.
SliderAfterPreset ==
    /\ matrixEvent.kind = "slider"
    /\ matrixEvent.key = "b"
    /\ matrix = [a |-> 71, b |-> 200, c |-> 71, d |-> 71]

\* C10: from the identity matrix, slider edits and preset clicks keep all four
\* entries within [-2, 2].
EntriesWithinSliderRange ==
    \A k \in Keys : matrix[k] >= -200 /\ matrix[k] <= 200

\* Both ends of the range are reached: 2 by the Scale 2x preset, -2 by a slider.
RangeEndsReached ==
    matrix.a = 200 /\ matrix.d = 200 /\ matrix.b = -200 /\ matrixEvent.kind = "slider"

\* the pointer of the last event is within 30 px of the tip of the vector that
\* was on screen when the event arrived
NearTip == tipDistSq(vectorAngle, finderEvent'.x, finderEvent'.y) < GrabRadiusSq

\* C11: the angle changes only on a pointer-move while dragging is armed, and
\* dragging is armed only by a pointer-down within 30 px of the vector tip: a
\* pointer-down farther away does not arm, a pointer-move while disarmed leaves
\* the angle alone, and pointer-up and pointer-leave disarm without changing
\* the angle.
AngleFollowsArmedPointerOnly ==
    [][ /\ vectorAngle' # vectorAngle => (finderEvent'.kind = "move" /\ isDragging)
        /\ (finderEvent'.kind = "move" /\ isDragging) =>
              vectorAngle' = Atan2(finderEvent'.y, finderEvent'.x)
        /\ (~isDragging /\ isDragging') => (finderEvent'.kind = "down" /\ NearTip)
        /\ (finderEvent'.kind = "down" /\ ~NearTip) => isDragging' = isDragging
        /\ (finderEvent'.kind = "down" /\ NearTip) => isDragging'
        /\ finderEvent'.kind = "move" => isDragging' = isDragging
        /\ finderEvent'.kind \in {"up", "leave"} =>
              (~isDragging' /\ vectorAngle' = vectorAngle)
      ]_finderVars

\* C11 witness: the vector was dragged off its initial angle, released, and a
\* later pointer-down away from its tip left dragging disarmed
DraggedThenMissed ==
    /\ vectorAngle = 2356
    /\ ~isDragging
    /\ finderEvent.kind = "down"
    /\ tipDistSq(vectorAngle, finderEvent.x, finderEvent.y) >= GrabRadiusSq

\* C12 as stated: the matrix shown for A - lambda I has entries
\* {a - lambda, b, c - lambda, d} for every lambda of the slider.
ShiftedIsColumnShift ==
    detScene.shifted = [a |-> matrixA.a - lambda, b |-> matrixA.b,
                        c |-> matrixA.c - lambda, d |-> matrixA.d]

\* C12 amended: the matrix shown for A - lambda I has entries
\* {a - lambda, b, c, d - lambda} for every lambda of the slider: lambda is
\* subtracted from the two diagonal entries and the off-diagonal ones are kept.
ShiftedIsDiagonalShift ==
    /\ lambda \in LambdaValues
    /\ detScene.shifted = [a |-> matrixA.a - lambda, b |-> matrixA.b,
                           c |-> matrixA.c, d |-> matrixA.d - lambda]

\* C12 witness: the slider was moved from one end of its range to the other
SlidAcrossRange ==
    /\ detEvent.kind = "slide"
    /\ detEvent.from = LambdaMin
    /\ lambda = LambdaMax

\* C13: at lambda = 2 the shifted matrix is {1, 1, 0, 0}, its determinant is 0
\* and the view reports an eigenvalue; at lambda = 2.5 the determinant is -0.25
\* and nothing is reported; on the slider values the determinant is 0 only at
\* lambda = 2 and lambda = 3.
DeterminantAtEigenvalues ==
    /\ lambda = 200 =>
          /\ detScene.shifted = [a |-> 100, b |-> 100, c |-> 0, d |-> 0]
          /\ detScene.determinant = 0
          /\ detScene.isAtEigenvalue
          /\ detScene.found = 200
    /\ lambda = 250 =>
          /\ detScene.determinant = -2500
          /\ ~detScene.isAtEigenvalue
          /\ detScene.found = undefined
    /\ detScene.determinant = 0 <=> lambda \in {200, 300}

\* C13 witness: the slider went from the eigenvalue 2 to 2.5
FromEigenvalueToBetween ==
    /\ detEvent.kind = "slide"
    /\ detEvent.from = 200
    /\ lambda = 250

\* C14: the two advisories are independent: every matrix with |det| < 0.1 is
\* drawn with 'Space is being squished!' whether or not det is negative, and
\* every matrix with det < 0 is drawn with 'Orientation flipped!'.
AdvisoriesIndependent ==
    /\ Abs(matrixScene.det) < SquishThreshold =>
          "Space is being squished!" \in matrixScene.advisory
    /\ matrixScene.det < 0 => "Orientation flipped!" \in matrixScene.advisory

\* the minimal circular distance of the evaluated angle to table entry i
CircularDistance(i) ==
    LET d == Abs(matchResult.angle - eigenvectorAngles[i])
    IN  IF d <= TwoPi - d THEN d ELSE TwoPi - d

\* C15: for every query angle within 2 pi of the table entries,
\* getEigenvectorMatch returns the first entry, in table order, whose minimal
\* circular distance to the angle is below the tolerance, with its eigenvalue,
\* and null when there is none; with tolerance 0.15 the angles 0.1 and
\* 2 pi - 0.05 match the entry 0 and the angle 0.2 matches nothing.
MatchIsFirstWithinTolerance ==
    matchResult.evaluated =>
      /\ (\A i \in 1..Len(eigenvectorAngles) :
              Abs(matchResult.angle - eigenvectorAngles[i]) <= TwoPi) =>
            LET hits == {i \in 1..Len(eigenvectorAngles) : CircularDistance(i) < tolerance}
            IN  /\ hits = {} => matchResult.match = null
                /\ hits # {} =>
                      \E i \in hits :
                          /\ \A g \in hits : i <= g
                          /\ matchResult.match =
                                [index |-> i - 1, eigenvalue |-> eigenvalues[i]]
      /\ matchResult.angle \in {100, TwoPi - 50} =>
            matchResult.match = [index |-> 0, eigenvalue |-> 2]
      /\ matchResult.angle = 200 => matchResult.match = null

\* C15 witness: the wrap-around angle 2 pi - 0.05 was evaluated and matched
WrapAroundMatched ==
    /\ matchResult.evaluated
    /\ matchResult.angle = TwoPi - 50
    /\ matchResult.match # null

\* v = (cos, sin) of the angle on screen and Av point in the same direction
SameDirection ==
    LET vx == CosMilli(vectorAngle)
        vy == SinMilli(vectorAngle)
        Av == transformVector(vx, vy)
    IN  /\ vx * Av.y - vy * Av.x = 0
        /\ vx * Av.x + vy * Av.y > 0

\* C16: whenever the dragged vector v and Av point in the same direction, the
\* scene reports that an eigenvector was found, at every drag angle, the
\* directions opposite to the two table entries included.
SameDirectionIsReported ==
    SameDirection => (finderScene.angle = vectorAngle /\ finderScene.status # null)

\* the minimum length the scene of the last request is held to, in pixels
RequiredMinimum ==
    IF arrowRequest.scene = "DeterminantExplorer" THEN MinLengthDeterminant
    ELSE MinLengthMatrix

\* C17: in every scene an arrow requested with a pixel length below the
\* minimum (3 px in DeterminantExplorer, 5 px elsewhere) is suppressed:
\* drawArrow emits no line segment and no head for it and leaves the styles of
\* the drawing surface as they were.
ShortArrowsSuppressed ==
    (arrowResult.evaluated /\ shorterThan(arrowRequest.dx, arrowRequest.dy, RequiredMinimum))
        => arrowResult.drawn = Suppressed

\* C17 witness: DeterminantExplorer asked for the image of (1, 0) at lambda = 3,
\* an arrow of length zero, and nothing was drawn
ZeroLengthArrowRequested ==
    /\ arrowResult.evaluated
    /\ arrowRequest = [scene |-> "DeterminantExplorer", dx |-> 0, dy |-> 0]
    /\ ~arrowResult.drawn.line

\* a redraw without a canvas or without a context: nothing is drawn, nothing is
\* raised, in EigenvectorFinder and in the matrix editor's view
RedrawIsNoOpWithoutSurface ==
    /\ (finderSurface # "ready" /\ finderSurface' = finderSurface) =>
          (finderScene' = finderScene /\ (finderEvent' # finderEvent => ~finderEvent'.drew))
    /\ (matrixSurface # "ready" /\ matrixSurface' = matrixSurface) =>
          matrixScene' = matrixScene
    /\ ~finderThrew' /\ ~matrixThrew'

OscillatorTimeWithinPeriod == time["CoupledOscillators"] < OscillatorPeriod

\* C19 amended: the clock of CoupledOscillators does not wrap: every tick adds
\* 0.03 to its time, which never returns to an earlier value and grows past
\* every period.
OscillatorTimeOnlyGrows ==
    [][ time'["CoupledOscillators"] \in
            {time["CoupledOscillators"],
             time["CoupledOscillators"] + TimeStep("CoupledOscillators")} ]_vars

\* C19 witness: the oscillators ran past 8 time units, more than one period of
\* each of their modes
OscillatorsRanPastPeriods ==
    /\ clockEvent = <<"page", "frame">>
    /\ time["CoupledOscillators"] >= StabilityPeriod
    /\ time["CoupledOscillators"] > OscillatorPeriod

\* the particles of StabilityAnalysis are all drawn where they started
AtInitialPoints(t, scenario) ==
    \A i \in 1..numParticles :
        LET p == stabilityParticles(t, scenario)[i]
        IN  /\ Len(p.trail) = 1
            /\ p.trail[1].ex = 0 /\ p.trail[1].ey = 0
            /\ Abs(p.trail[1].x0 * p.trail[1].x0 + p.trail[1].y0 * p.trail[1].y0
                   - initR * initR * 1000000) <= initR * initR * 1000
            /\ p.particle.x0 = p.trail[1].x0 /\ p.particle.y0 = p.trail[1].y0
            /\ Abs(p.particle.ex) < 100 * TimeStep("StabilityAnalysis")
            /\ Abs(p.particle.ey) < 100 * TimeStep("StabilityAnalysis")

\* C20: the time StabilityAnalysis places its particles with is the clock time
\* modulo 8: it is always in [0, 8), and whenever the clock crosses a multiple
\* of 8 the trails start again from the initial points at radius 3, with the
\* particles less than one tick away from them, in every scenario.
TrajectoriesRestartEveryEight ==
    [][ LET t == time'["StabilityAnalysis"]
        IN  /\ 0 <= modTime(t) /\ modTime(t) < StabilityPeriod
            /\ (t - modTime(t)) % StabilityPeriod = 0
            /\ (t \div StabilityPeriod > time["StabilityAnalysis"] \div StabilityPeriod) =>
                  /\ modTime(t) < TimeStep("StabilityAnalysis")
                  /\ \A scenario \in Options("StabilityAnalysis") :
                        AtInitialPoints(t, scenario)
      ]_vars

\* C20 witness: the clock of StabilityAnalysis has just crossed 8 in the saddle
\* scenario
CrossedEightInSaddle ==
    /\ clockEvent = <<"page", "frame">>
    /\ selection["StabilityAnalysis"] = "saddle"
    /\ time["StabilityAnalysis"] >= StabilityPeriod
    /\ modTime(time["StabilityAnalysis"]) < TimeStep("StabilityAnalysis")
    /\ Len(stabilityParticles(time["StabilityAnalysis"], "saddle")[1].trail) = 1

\* C26: in every committed state of VectorTransformationViz, while isAnimating
\* both buttons are disabled; while not animating the progress is exactly 0 or
\* exactly 1 and exactly one button is enabled, Transform at 0 and Reset at 1.
ButtonsFollowAnimation ==
    /\ isAnimating => (TransformDisabled /\ ResetDisabled)
    /\ ~isAnimating =>
          /\ animationProgress \in {0, ProgressOne}
          /\ TransformDisabled # ResetDisabled
          /\ animationProgress = 0 => ~TransformDisabled
          /\ animationProgress = ProgressOne => ~ResetDisabled

\* C26 witness: the animation has just ended, only Reset can be clicked
OnlyResetEnabled ==
    /\ vizEvent = "tick"
    /\ mounted
    /\ ~isAnimating
    /\ TransformDisabled
    /\ ~ResetDisabled

\* C27: in every committed state of VectorTransformationViz showEigenvector is
\* true exactly when animationProgress > 0: e1 appears with the first step of
\* the animation and stays until Reset sets both back together.
EigenvectorShownIffProgress ==
    showEigenvector <=> animationProgress > 0

\* C27 witness: Reset was clicked after a finished animation
ResetHidEigenvector ==
    /\ vizEvent = "reset"
    /\ ~showEigenvector
    /\ animationProgress = 0

\* C25: on every slider value of lambda, whenever the determinant counts as zero
\* (isAtEigenvalue) the search for the nearest eigenvalue finds one, so the
\* "Eigenvalue found" message names 2 or 3 and the green highlight appears exactly
\* when the canvas status line announces an eigenvalue.
FoundWheneverAtEigenvalue ==
    /\ lambda \in LambdaValues
    /\ detScene.isAtEigenvalue =>
          /\ detScene.found \in {detEigenvalues[1], detEigenvalues[2]}
          /\ Abs(lambda - detScene.found) <= 15
    /\ detScene.highlight <=> detScene.canvasStatus = "eigenvalue"

\* the slider stopped at 2.15, the last value of the band where |det| < 0.15
SlidToBandEdge ==
    /\ detEvent.kind = "slide"
    /\ lambda = 215
    /\ detScene.isAtEigenvalue
    /\ detScene.found = 200
    /\ detScene.canvasStatus = "eigenvalue"

\* the table entries the loop of getEigenvectorMatch would accept for the
\* evaluated angle
entriesWithinTolerance ==
    {i \in 1..Len(eigenvectorAngles) : angleDiff(matchResult.angle, i) < tolerance}

\* C29: for every evaluated angle in [-pi, pi] at most one entry of the table
\* (angles 0 and 3 pi / 4) is within the tolerance, so the reported match is the
\* only candidate and the table order decides nothing.
AtMostOneEntryWithinTolerance ==
    (matchResult.evaluated /\ matchResult.angle >= -Pi /\ matchResult.angle <= Pi) =>
        /\ Cardinality(entriesWithinTolerance) <= 1
        /\ \A i \in entriesWithinTolerance :
              matchResult.match = [index |-> i - 1, eigenvalue |-> eigenvalues[i]]
        /\ entriesWithinTolerance = {} => matchResult.match = null

\* an angle of [-pi, pi] next to 3 pi / 4 was evaluated and matched the second entry
SecondEntryMatched ==
    /\ matchResult.evaluated
    /\ matchResult.angle >= -Pi /\ matchResult.angle <= Pi
    /\ entriesWithinTolerance = {2}
    /\ matchResult.match.index = 1

\* C30: the eigen table of EigenvectorFinder agrees with the matrix that
\* transformVector applies: (1, 0) maps to 2 (1, 0) and (-1, 1) maps to
\* 1 (-1, 1), and whenever the dragged vector stands exactly at a table angle
\* (0 or 3 pi / 4) its image is the reported eigenvalue times the vector.
TableEntriesAreEigenpairs ==
    /\ transformVector(1, 0) = [x |-> eigenvalues[1] * 1, y |-> eigenvalues[1] * 0]
    /\ transformVector(-1, 1) = [x |-> eigenvalues[2] * (-1), y |-> eigenvalues[2] * 1]
    /\ \A i \in 1..Len(eigenvectorAngles) :
          (vectorAngle = eigenvectorAngles[i] /\ finderScene.angle = vectorAngle) =>
              /\ finderScene.status = [index |-> i - 1, eigenvalue |-> eigenvalues[i]]
              /\ transformVector(CosMilli(vectorAngle), SinMilli(vectorAngle)) =
                    [x |-> finderScene.status.eigenvalue * CosMilli(vectorAngle),
                     y |-> finderScene.status.eigenvalue * SinMilli(vectorAngle)]

\* the vector was dragged onto the direction (-1, 1) and eigenvalue 1 is reported
DraggedOntoSecondEigenvector ==
    /\ finderEvent.kind = "move"
    /\ isDragging
    /\ vectorAngle = eigenvectorAngles[2]
    /\ finderScene.status = [index |-> 1, eigenvalue |-> 1]

\* C24: in the intro animation each of the three vectors is drawn at itself at
\* progress 0 and at its image under the matrix at progress 1, and the green
\* eigenvector e1 = (1, 0) is drawn at (1 + t, 0) at every progress t reached:
\* stretched along its own line, never rotated, ending at (2, 0) = 2 e1.
IntroAnimationInterpolates ==
    /\ animationProgress \in ProgressValues
    /\ \A v \in vizVectors :
          LET tv == vizTransformVector(v.x, v.y, animationProgress)
          IN  /\ animationProgress = 0 => tv = v
              /\ animationProgress = ProgressOne =>
                    tv = [x |-> vizMatrix.a * v.x + vizMatrix.b * v.y,
                          y |-> vizMatrix.c * v.x + vizMatrix.d * v.y]
    /\ [x |-> 100, y |-> 0] \in vizVectors
    /\ vizTransformVector(100, 0, animationProgress) =
          [x |-> 100 + animationProgress, y |-> 0]
    /\ animationProgress = ProgressOne =>
          vizTransformVector(100, 0, animationProgress) = [x |-> 2 * 100, y |-> 2 * 0]

\* the animation ran to its end: progress 1, the eigenvector shown at 2 e1
AnimationReachedImage ==
    /\ vizEvent = "tick"
    /\ animationProgress = ProgressOne
    /\ ~isAnimating
    /\ showEigenvector
    /\ vizTransformVector(100, 0, animationProgress) = [x |-> 200, y |-> 0]

\* the preset of the given name, as the request's matrix
RequestedPreset(name) ==
    /\ applyResult.evaluated
    /\ applyRequest.scene # "DeterminantExplorer"
    /\ \E i \in 1..Len(presets) :
          presets[i].name = name /\ applyRequest.m = presets[i].values

\* C22: in every scene the helper returns (a x + b y, c x + d y) for the matrix
\* and the vector it is called with, and the three helpers return the same
\* image for the same matrix and vector.
ApplyIsMatrixVectorProduct ==
    applyResult.evaluated =>
        LET m == applyRequest.m
            product == [x |-> m.a * applyRequest.x + m.b * applyRequest.y,
                        y |-> m.c * applyRequest.x + m.d * applyRequest.y]
        IN  /\ applyResult.image = product
            /\ \A scene \in ApplyScenes :
                  sceneApply(scene, m, applyRequest.x, applyRequest.y) = applyResult.image

\* a helper was called with a matrix whose four entries differ and a vector with
\* two non-zero coordinates
GeneralVectorApplied ==
    /\ applyResult.evaluated
    /\ applyRequest.m = [a |-> SliderMin, b |-> SliderMax, c |-> SliderStep, d |-> -SliderStep]
    /\ applyRequest.x = 4 /\ applyRequest.y = -1
    /\ applyResult.image = [x |-> -1000, y |-> 50]

\* C23: the presets give the stated images: Identity leaves every vector where it
\* is; Scale 2x maps (1, 0) to (2, 0) and (0, 1) to (0, 2) and has determinant 4;
\* Shear {1, 1, 0, 1} fixes (1, 0) and maps (0, 1) to (1, 1).
PresetImages ==
    /\ RequestedPreset("Identity") =>
          applyResult.image = [x |-> 100 * applyRequest.x, y |-> 100 * applyRequest.y]
    /\ RequestedPreset("Scale 2x") =>
          /\ applyResult.det = 40000
          /\ (applyRequest.x = 1 /\ applyRequest.y = 0) =>
                applyResult.image = [x |-> 200, y |-> 0]
          /\ (applyRequest.x = 0 /\ applyRequest.y = 1) =>
                applyResult.image = [x |-> 0, y |-> 200]
    /\ RequestedPreset("Shear") =>
          /\ applyRequest.m = [a |-> 100, b |-> 100, c |-> 0, d |-> 100]
          /\ (applyRequest.x = 1 /\ applyRequest.y = 0) =>
                applyResult.image = [x |-> 100, y |-> 0]
          /\ (applyRequest.x = 0 /\ applyRequest.y = 1) =>
                applyResult.image = [x |-> 100, y |-> 100]

\* the redraw asked for the image of (0, 1) under the Shear preset
ShearAppliedToJ ==
    /\ RequestedPreset("Shear")
    /\ applyRequest.x = 0 /\ applyRequest.y = 1
    /\ applyResult.image = [x |-> 100, y |-> 100]

\* the scene CoupledOscillators shows in the current state
oscillatorsNow ==
    oscillatorScene(selection["CoupledOscillators"], time["CoupledOscillators"])

DrawCallsInFixedOrder ==
    /\ inLayerOrder(matrixDrawCalls(matrixScene.matrix))
    /\ inLayerOrder(detDrawCalls(lambda))

\* C21 as the code has it: every redraw starts with the clear and draws grid,
\* axes, polygons, arrows and then the readouts and advisories in this order;
\* the label of a vector is written right after the arrows of that vector, so
\* the arrows of the second vector follow the label of the first, and no arrow
\* follows a readout or an advisory.
DrawCallsInOrderButLabels ==
    /\ inLayerOrderButLabels(matrixDrawCalls(matrixScene.matrix))
    /\ inLayerOrderButLabels(detDrawCalls(lambda))
    /\ inLayerOrder(detDrawCalls(lambda))

\* a preset was clicked and the redraw drew the arrows of j after the label of i;
\* DeterminantExplorer stands at lambda = 3, where the arrow of e1 is suppressed
ArrowDrawnAfterLabel ==
    LET calls == matrixDrawCalls(matrixScene.matrix)
    IN  /\ matrixEvent.kind = "preset"
        /\ \E i \in 1..Len(calls) : \E j \in 1..Len(calls) :
              i < j /\ calls[i] = <<"text", "i">> /\ calls[j] = <<"arrow", "transformed">>
        /\ detEvent.kind = "slide"
        /\ lambda = detEigenvalues[2]
        /\ Len(detDrawCalls(lambda)) = Len(detDrawCalls(0)) - 1
====
